---------------------------- MODULE Spec2Model ----------------------------
(***************************************************************************)
(* Model of src/app.py (ADGM corporate agent): the word chunker, the       *)
(* TF-IDF top-k retriever, the snippet-to-paragraph resolver with the      *)
(* annotator, and the oracle-response pipeline.                            *)
(*                                                                         *)
(* Four specifications, one per component:                                 *)
(*   SpecChunk   chunk_text                         (lines 75-87)          *)
(*   SpecRag     build_rag_context                  (lines 89-126)         *)
(*   SpecAnnot   annotate_docx_bytes and resolver   (lines 128-193)        *)
(*   SpecOracle  extraction, parsing, grouping loop (lines 229-344)        *)
(* Every specification keeps the other components' variables at rest.      *)
(***************************************************************************)
EXTENDS Integers, Sequences, FiniteSets, TLC

VARIABLES
    \* chunk_text
    words, chunk_size, overlap, i, chunks, cpc,
    \* build_rag_context
    refs, top_k, chunk_sources, sims, top_idx, top_chunks, rpc,
    \* annotate_docx_bytes
    stored, doc, issues, issue, snippet, para_indices, usedFallback,
    applied, call_sizes, orig, apc,
    \* script body: extraction loop, oracle call, grouping, annotation loop
    uploaded_files, combined_texts, raw_text, parse_path, found_issues,
    report_done, issues_by_doc, annotated, errors, opc

chunkVars == <<words, chunk_size, overlap, i, chunks, cpc>>
ragVars == <<refs, top_k, chunk_sources, sims, top_idx, top_chunks, rpc>>
annVars == <<stored, doc, issues, issue, snippet, para_indices, usedFallback,
             applied, call_sizes, orig, apc>>
oraVars == <<uploaded_files, combined_texts, raw_text, parse_path, found_issues,
             report_done, issues_by_doc, annotated, errors, opc>>
vars == <<chunkVars, ragVars, annVars, oraVars>>

-----------------------------------------------------------------------------
(* Bounds of the model.                                                    *)

MaxWords == 6
MaxChunkSize == 4

Min(a, b) == IF a < b THEN a ELSE b

-----------------------------------------------------------------------------
(* chunk_text(text, chunk_size, overlap): lines 75-87.                     *)
(* text.split() is modelled by its result, the word list; a word is        *)
(* identified by its position in the text.  A chunk is the list of words   *)
(* joined into it.                                                         *)

\* words[a:b] of Python, 0-based, clipped at both ends.
PySlice(s, a, b) == SubSeq(s, Min(a, Len(s)) + 1, Min(b, Len(s)))

ChunkRest ==
    /\ words = <<>> /\ chunk_size = 1 /\ overlap = 0
    /\ i = 0 /\ chunks = <<>> /\ cpc = "rest"

\* Lines 79-82: words = text.split(); chunks = []; i = 0; n = len(words).
ChunkInit ==
    /\ \E n \in 0..MaxWords : words = [k \in 1..n |-> k]
    /\ chunk_size \in 1..MaxChunkSize
    /\ overlap \in 0..(chunk_size - 1)
    /\ i = 0
    /\ chunks = <<>>
    /\ cpc = "loop"

\* Lines 83-86: one iteration of the while loop.
ChunkStep ==
    /\ cpc = "loop"
    /\ i < Len(words)
    /\ chunks' = Append(chunks, PySlice(words, i, i + chunk_size))
    /\ i' = i + chunk_size - overlap
    /\ UNCHANGED <<words, chunk_size, overlap, cpc>>
    /\ UNCHANGED <<ragVars, annVars, oraVars>>

\* Lines 83, 87: the loop condition fails and the chunks are returned.
ChunkReturn ==
    /\ cpc = "loop"
    /\ ~(i < Len(words))
    /\ cpc' = "done"
    /\ UNCHANGED <<words, chunk_size, overlap, i, chunks>>
    /\ UNCHANGED <<ragVars, annVars, oraVars>>


-----------------------------------------------------------------------------
(* build_rag_context(document_text, refs, top_k): lines 89-126.            *)
(* A reference file is modelled by the number of words of its text.  The   *)
(* TF-IDF vectors are library code (sklearn): the similarities are an      *)
(* input of the ranking, one integer per chunk on a scale where ScoreMax   *)
(* stands for cosine 1.0 (rows are L2-normalised) and 0 for no shared term.*)

MaxRefs == 2
MaxTopK == 3
ScoreMax == 2
RagChunkSize == 200
RagOverlap == 40
\* Word counts of the reference files the model draws from.
RefWordCounts == {0, 150, 200}

\* chunk_text as a function of the word count: the lengths of the chunks
\* produced from position pos on (lines 83-87).
RECURSIVE ChunkLens(_, _, _, _)
ChunkLens(n, size, ov, pos) ==
    IF pos < n
    THEN <<Min(pos + size, n) - pos>> \o ChunkLens(n, size, ov, pos + size - ov)
    ELSE <<>>

\* Lines 97-102: chunk_sources, one entry <<file, idx+1>> per chunk, in order.
RECURSIVE CollectChunks(_, _)
CollectChunks(rs, r) ==
    IF r > Len(rs) THEN <<>>
    ELSE [k \in 1..Len(ChunkLens(rs[r], RagChunkSize, RagOverlap, 0)) |-> <<r, k>>]
         \o CollectChunks(rs, r + 1)

Reverse(s) == [k \in 1..Len(s) |-> s[Len(s) + 1 - k]]

\* a[-k:] of Python for k >= 0: the last k elements, and the whole of a
\* when k = 0 (a[-0:] is a[0:]) or k >= len(a).
PyLast(a, k) ==
    IF k = 0 \/ k >= Len(a) THEN a ELSE SubSeq(a, Len(a) - k + 1, Len(a))

\* np.argsort(sims): an index permutation that sorts sims ascending.  The
\* default kind is not stable, so the order among equal values is any.
ArgSorts(s) ==
    {p \in [1..Len(s) -> 1..Len(s)] :
        /\ \A a, b \in 1..Len(s) : a # b => p[a] # p[b]
        /\ \A a \in 1..(Len(s) - 1) : s[p[a]] <= s[p[a + 1]]}

RagRest ==
    /\ refs = <<>> /\ top_k = 0 /\ chunk_sources = <<>> /\ sims = <<>>
    /\ top_idx = <<>> /\ top_chunks = <<>> /\ rpc = "rest"

RagInit ==
    /\ \E n \in 0..MaxRefs : refs \in [1..n -> RefWordCounts]
    /\ top_k \in 0..MaxTopK
    /\ chunk_sources = <<>> /\ sims = <<>>
    /\ top_idx = <<>> /\ top_chunks = <<>>
    /\ rpc = "start"

\* Lines 97-105: collect the chunks; no chunk at all returns "".
RagCollect ==
    /\ rpc = "start"
    /\ chunk_sources' = CollectChunks(refs, 1)
    /\ rpc' = IF chunk_sources' = <<>> THEN "done" ELSE "vectorize"
    /\ UNCHANGED <<refs, top_k, sims, top_idx, top_chunks>>
    /\ UNCHANGED <<chunkVars, annVars, oraVars>>

\* Lines 108-117: fit_transform and the similarities of every chunk.
RagVectorize ==
    /\ rpc = "vectorize"
    /\ sims' \in [1..Len(chunk_sources) -> 0..ScoreMax]
    /\ rpc' = "rank"
    /\ UNCHANGED <<refs, top_k, chunk_sources, top_idx, top_chunks>>
    /\ UNCHANGED <<chunkVars, annVars, oraVars>>

\* Lines 110-112, 125-126: fit_transform raises (empty vocabulary): "".
RagVectorizeFails ==
    /\ rpc = "vectorize"
    /\ rpc' = "done"
    /\ UNCHANGED <<refs, top_k, chunk_sources, sims, top_idx, top_chunks>>
    /\ UNCHANGED <<chunkVars, annVars, oraVars>>

\* Lines 118-124: top_idx = argsort(sims)[-top_k:][::-1], then the chunks
\* of positive similarity among them, as <<chunk index, score>>.
RagRank ==
    /\ rpc = "rank"
    /\ \E p \in ArgSorts(sims) : top_idx' = Reverse(PyLast(p, top_k))
    /\ LET Positive(k) == sims[k] > 0
       IN top_chunks' = [k \in 1..Len(SelectSeq(top_idx', Positive)) |->
                           [chunk |-> SelectSeq(top_idx', Positive)[k],
                            score |-> sims[SelectSeq(top_idx', Positive)[k]]]]
    /\ rpc' = "done"
    /\ UNCHANGED <<refs, top_k, chunk_sources, sims>>
    /\ UNCHANGED <<chunkVars, annVars, oraVars>>


-----------------------------------------------------------------------------
(* Strings.  A Python str is a sequence of one-character strings.          *)

UpperCase ==
    <<"A", "B", "C", "D", "E", "F", "G", "H", "I", "J", "K", "L", "M",
      "N", "O", "P", "Q", "R", "S", "T", "U", "V", "W", "X", "Y", "Z">>
LowerCase ==
    <<"a", "b", "c", "d", "e", "f", "g", "h", "i", "j", "k", "l", "m",
      "n", "o", "p", "q", "r", "s", "t", "u", "v", "w", "x", "y", "z">>
Digits == {"0", "1", "2", "3", "4", "5", "6", "7", "8", "9"}

\* \s of re, and the characters str.strip() removes.
IsSpace(c) == c \in {" ", "\t", "\n", "\r"}
\* \w of re.
IsWordChar(c) ==
    \/ \E k \in 1..Len(UpperCase) : c = UpperCase[k] \/ c = LowerCase[k]
    \/ c \in Digits
    \/ c = "_"

\* str.lower(), one character.
LowerChar(c) ==
    IF \E k \in 1..Len(UpperCase) : c = UpperCase[k]
    THEN LowerCase[CHOOSE k \in 1..Len(UpperCase) : c = UpperCase[k]]
    ELSE c
Lower(s) == [k \in 1..Len(s) |-> LowerChar(s[k])]

\* str.strip(): without the leading and the trailing whitespace.
RECURSIVE LStrip(_)
LStrip(s) == IF s # <<>> /\ IsSpace(Head(s)) THEN LStrip(Tail(s)) ELSE s
RECURSIVE RStrip(_)
RStrip(s) ==
    IF s # <<>> /\ IsSpace(s[Len(s)]) THEN RStrip(SubSeq(s, 1, Len(s) - 1)) ELSE s
Strip(s) == RStrip(LStrip(s))

\* re.sub(r"\s+", " ", s): every run of whitespace becomes one space.
RECURSIVE CollapseSpaces(_)
CollapseSpaces(s) ==
    IF s = <<>> THEN <<>>
    ELSE IF IsSpace(Head(s))
         THEN <<" ">> \o CollapseSpaces(LStrip(s))
         ELSE <<Head(s)>> \o CollapseSpaces(Tail(s))

\* Line 129.
normalize_snippet(sn) == Lower(CollapseSpaces(Strip(sn)))

\* needle in hay, of Python strings.
Contains(hay, needle) ==
    \E k \in 0..(Len(hay) - Len(needle)) : SubSeq(hay, k + 1, k + Len(needle)) = needle

\* The length of the run of word characters of s that starts at pos (1-based).
RECURSIVE WordRun(_, _)
WordRun(s, pos) ==
    IF pos <= Len(s) /\ IsWordChar(s[pos]) THEN 1 + WordRun(s, pos + 1) ELSE 0

MinWordLen == 4
KeywordLimit == 6

\* re.findall(r"\w{4,}", s), scanning from pos: the maximal runs of word
\* characters that have at least MinWordLen characters, in order.
RECURSIVE FindAllWords(_, _)
FindAllWords(s, pos) ==
    IF pos > Len(s) THEN <<>>
    ELSE LET r == WordRun(s, pos)
         IN IF r = 0 THEN FindAllWords(s, pos + 1)
            ELSE IF r >= MinWordLen
                 THEN <<SubSeq(s, pos, pos + r - 1)>> \o FindAllWords(s, pos + r)
                 ELSE FindAllWords(s, pos + r)

\* A variant of the shortlist: words of three characters count as keywords.
RECURSIVE FindAllWordsFrom3(_, _)
FindAllWordsFrom3(s, pos) ==
    IF pos > Len(s) THEN <<>>
    ELSE LET r == WordRun(s, pos)
         IN IF r = 0 THEN FindAllWordsFrom3(s, pos + 1)
            ELSE IF r >= 3
                 THEN <<SubSeq(s, pos, pos + r - 1)>> \o FindAllWordsFrom3(s, pos + r)
                 ELSE FindAllWordsFrom3(s, pos + r)
KeywordShortlistFrom3(sn) ==
    SubSeq(FindAllWordsFrom3(sn, 1), 1, Min(KeywordLimit, Len(FindAllWordsFrom3(sn, 1))))

\* Line 172: the shortlist, [...][:6].
KeywordShortlist(sn) ==
    SubSeq(FindAllWords(sn, 1), 1, Min(KeywordLimit, Len(FindAllWords(sn, 1))))

-----------------------------------------------------------------------------
(* Documents.  A document is the sequence of its paragraphs, a paragraph   *)
(* the sequence of its runs, a run its text and its character formatting.  *)
(* Paragraph indices are those of enumerate(doc.paragraphs): from 0.       *)

Run(t) == [text |-> t, italic |-> FALSE, bold |-> FALSE]

\* para.text of python-docx: the texts of the runs, concatenated.
RECURSIVE ParaText(_)
ParaText(para) ==
    IF para = <<>> THEN <<>> ELSE Head(para).text \o ParaText(Tail(para))

\* A variant of the containment loop: it returns at the first match.
RECURSIVE FindFromFirstOnly(_, _, _)
FindFromFirstOnly(d, snippet_norm, idx) ==
    IF idx >= Len(d) THEN <<>>
    ELSE LET para_norm == normalize_snippet(ParaText(d[idx + 1]))
         IN IF para_norm # <<>> /\ Contains(para_norm, snippet_norm)
            THEN <<idx>>
            ELSE FindFromFirstOnly(d, snippet_norm, idx + 1)

\* Lines 131-143, the loop from paragraph idx on.
RECURSIVE FindFrom(_, _, _)
FindFrom(d, snippet_norm, idx) ==
    IF idx >= Len(d) THEN <<>>
    ELSE LET para_norm == normalize_snippet(ParaText(d[idx + 1]))
         IN IF para_norm = <<>> THEN FindFrom(d, snippet_norm, idx + 1)
            ELSE IF Contains(para_norm, snippet_norm)
                 THEN <<idx>> \o FindFrom(d, snippet_norm, idx + 1)
                 ELSE FindFrom(d, snippet_norm, idx + 1)

find_paragraph_indices_containing(d, sn) == FindFrom(d, normalize_snippet(sn), 0)

\* A variant of the fallback loop: without the break, every paragraph that
\* contains a keyword is collected.
RECURSIVE FallbackFromAll(_, _, _)
FallbackFromAll(d, ws, idx) ==
    IF idx >= Len(d) THEN <<>>
    ELSE LET para_norm == normalize_snippet(ParaText(d[idx + 1]))
         IN IF \E k \in 1..Len(ws) : Contains(para_norm, Lower(ws[k]))
            THEN <<idx>> \o FallbackFromAll(d, ws, idx + 1)
            ELSE FallbackFromAll(d, ws, idx + 1)

\* Lines 173-177: the first paragraph, from idx on, that contains a keyword.
RECURSIVE FallbackFrom(_, _, _)
FallbackFrom(d, ws, idx) ==
    IF idx >= Len(d) THEN <<>>
    ELSE LET para_norm == normalize_snippet(ParaText(d[idx + 1]))
         IN IF \E k \in 1..Len(ws) : Contains(para_norm, Lower(ws[k]))
            THEN <<idx>>
            ELSE FallbackFrom(d, ws, idx + 1)

\* Lines 170-177.
FallbackIndices(d, sn) == FallbackFrom(d, KeywordShortlist(sn), 0)

\* Lines 168-177: containment first, the keyword fallback when it finds none.
ResolveIndices(d, sn) ==
    IF find_paragraph_indices_containing(d, sn) # <<>>
    THEN find_paragraph_indices_containing(d, sn)
    ELSE FallbackIndices(d, sn)

\* A variant of the search key: section is looked at before snippet.
SearchKeySectionFirst(it) ==
    LET first == IF it.section # <<>> THEN it.section
                 ELSE IF it.snippet # <<>> THEN it.snippet
                 ELSE it.text
    IN IF first # <<>> THEN first ELSE it.issue

\* Lines 156-162: the search key of an issue; <<>> when every field is empty.
SearchKey(it) ==
    LET first == IF it.snippet # <<>> THEN it.snippet
                 ELSE IF it.section # <<>> THEN it.section
                 ELSE it.text
    IN IF first # <<>> THEN first ELSE it.issue

\* Line 183: the annotation string.
AnnotationHead ==
    <<" ", "[", "A", "D", "G", "M", "_", "A", "N", "N", "O", "T", "A", "T",
      "I", "O", "N", " ", "|", " ", "S", "e", "v", "e", "r", "i", "t", "y",
      ":", " ">>
AnnotationMid ==
    <<" ", "|", " ", "S", "u", "g", "g", "e", "s", "t", "i", "o", "n", ":",
      " ">>
AnnotationTail ==
    <<"]">>
DefaultSeverity ==
    <<"R", "e", "v", "i", "e", "w">>

annotation_text(severity, suggestion) ==
    AnnotationHead \o (IF severity # <<>> THEN severity ELSE DefaultSeverity)
    \o AnnotationMid \o suggestion \o AnnotationTail

\* A variant of add_run: the paragraph's text is set to the annotation.
add_run_as_text(para, t) == <<[text |-> t, italic |-> TRUE, bold |-> FALSE]>>

\* A variant of add_run: an annotation run already at the end is replaced.
add_run_overwriting(para, t) ==
    IF para # <<>> /\ para[Len(para)].italic
    THEN [para EXCEPT ![Len(para)] = [text |-> t, italic |-> TRUE, bold |-> FALSE]]
    ELSE Append(para, [text |-> t, italic |-> TRUE, bold |-> FALSE])

\* Lines 184-187: para.add_run(annotation_text), italic and not bold.
add_run(para, t) == Append(para, [text |-> t, italic |-> TRUE, bold |-> FALSE])

\* Lines 180-187: one run appended to every paragraph of indices.
RECURSIVE AnnotateParas(_, _, _)
AnnotateParas(d, indices, t) ==
    IF indices = <<>> THEN d
    ELSE AnnotateParas([d EXCEPT ![Head(indices) + 1] = add_run(@, t)],
                       Tail(indices), t)


\* Lines 154-187 for one issue: the document after the issue is processed.
AnnotateIssue(d, it) ==
    IF SearchKey(it) = <<>> THEN d
    ELSE AnnotateParas(d, ResolveIndices(d, SearchKey(it)),
                       annotation_text(it.severity, it.suggestion))

\* Lines 151-193: annotate_docx_bytes as a function of the document and
\* the issue list, one pass.
RECURSIVE annotate_docx_bytes(_, _)
annotate_docx_bytes(d, its) ==
    IF its = <<>> THEN d
    ELSE annotate_docx_bytes(AnnotateIssue(d, Head(its)), Tail(its))

-----------------------------------------------------------------------------
(* The documents and the issues the model draws from.                      *)

S_The_ ==
    <<"T", "h", "e", " ">>
S__Court ==
    <<" ", "C", "o", "u", "r", "t">>
S_CourtsOfADGM ==
    <<"C", "o", "u", "r", "t", "s", " ", "o", "f", " ", "A", "D", "G", "M">>
S_RulesTabApply ==
    <<"R", "u", "l", "e", "s", "\t", "a", "p", "p", "l", "y">>
S_Blank ==
    <<" ", " ">>
S_the_court ==
    <<"t", "h", "e", " ", "c", "o", "u", "r", "t">>
S_COURT ==
    <<"C", "O", "U", "R", "T">>
S_space ==
    <<" ">>
S_the ==
    <<"t", "h", "e">>
S_CourtRules ==
    <<"C", "o", "u", "r", "t", " ", "r", "u", "l", "e", "s">>
S_adgm ==
    <<"a", "d", "g", "m">>
S_SevenWords ==
    <<"a", "a", "a", "a", " ", "b", "b", "b", "b", " ", "c", "c", "c", "c",
      " ", "d", "d", "d", "d", " ", "e", "e", "e", "e", " ", "r", "u", "l",
      "e", "s", " ", "c", "o", "u", "r", "t">>
S_void ==
    <<"v", "o", "i", "d">>
S_the_void ==
    <<"t", "h", "e", " ", "v", "o", "i", "d">>
S_court ==
    <<"c", "o", "u", "r", "t">>
S_High ==
    <<"H", "i", "g", "h">>
S_x ==
    <<"x">>

\* "The  Court" in two runs, an empty paragraph, "Courts of ADGM".
DocCourts == << <<Run(S_The_), Run(S__Court)>>, <<>>, <<Run(S_CourtsOfADGM)>> >>
\* "Rules<TAB>apply", a paragraph of whitespace only.
DocRules == << <<Run(S_RulesTabApply)>>, <<Run(S_Blank)>> >>
DocPool == {DocCourts, DocRules}

\* An issue record; <<>> is a field that is missing, None or "".
Issue(sn, sec, txt, desc, sev, sug) ==
    [snippet |-> sn, section |-> sec, text |-> txt, issue |-> desc,
     severity |-> sev, suggestion |-> sug]

IssuePool ==
    { Issue(S_the_court, <<>>, <<>>, <<>>, S_High, S_x),
      Issue(S_COURT, <<>>, <<>>, <<>>, <<>>, S_x),
      Issue(S_space, <<>>, <<>>, <<>>, <<>>, S_x),
      Issue(S_the, <<>>, <<>>, <<>>, <<>>, <<>>),
      Issue(<<>>, S_CourtRules, <<>>, S_void, <<>>, S_x),
      Issue(<<>>, <<>>, <<>>, <<>>, S_High, S_x),
      Issue(<<>>, <<>>, <<>>, S_adgm, <<>>, S_x),
      Issue(S_SevenWords, <<>>, <<>>, <<>>, <<>>, S_x),
      Issue(S_the_void, S_court, S_court, S_court, <<>>, S_x),
      Issue(<<>>, <<>>, S_court, S_void, <<>>, S_x) }

\* The number of issues one document is annotated with, over all calls.
MaxIssues == 2

IssueLists(n) == UNION {[1..k -> IssuePool] : k \in 0..n}

NoIssue == Issue(<<>>, <<>>, <<>>, <<>>, <<>>, <<>>)

-----------------------------------------------------------------------------
(* annotate_docx_bytes(original_bytesio, issues): lines 145-193.           *)
(* stored is the document as bytes (the upload, then every returned        *)
(* BytesIO), doc the live Document of the running call.  A call is fed     *)
(* the bytes the previous call returned.                                   *)

AnnRest ==
    /\ stored = <<>> /\ doc = <<>> /\ issues = <<>> /\ issue = NoIssue
    /\ snippet = <<>> /\ para_indices = <<>> /\ usedFallback = FALSE
    /\ applied = <<>> /\ call_sizes = <<>> /\ orig = <<>> /\ apc = "rest"

AnnInit ==
    /\ orig \in DocPool
    /\ stored = orig
    /\ doc = <<>> /\ issues = <<>> /\ issue = NoIssue
    /\ snippet = <<>> /\ para_indices = <<>> /\ usedFallback = FALSE
    /\ applied = <<>>
    /\ call_sizes = <<>>
    /\ apc = "idle"

\* Lines 151-152: a call starts; the Document is parsed from the bytes.
AnnLoad ==
    /\ apc = "idle"
    /\ issues' \in IssueLists(MaxIssues - Len(applied))
    /\ call_sizes' = IF issues' = <<>> THEN call_sizes
                      ELSE Append(call_sizes, Len(issues'))
    /\ doc' = stored
    /\ apc' = "loop"
    /\ UNCHANGED <<stored, issue, snippet, para_indices, usedFallback, applied, orig>>
    /\ UNCHANGED <<chunkVars, ragVars, oraVars>>

\* Lines 154-165: an issue with no search key is passed over (continue).
AnnSkip ==
    /\ apc = "loop"
    /\ issues # <<>>
    /\ SearchKey(Head(issues)) = <<>>
    /\ issue' = Head(issues)
    /\ snippet' = <<>>
    /\ issues' = Tail(issues)
    /\ applied' = Append(applied, Head(issues))
    /\ UNCHANGED <<stored, doc, para_indices, usedFallback, call_sizes, orig, apc>>
    /\ UNCHANGED <<chunkVars, ragVars, oraVars>>

\* Lines 154-177: the search key and the paragraphs it resolves to, by
\* containment and, when that finds none, by the keyword fallback.
AnnResolve ==
    /\ apc = "loop"
    /\ issues # <<>>
    /\ SearchKey(Head(issues)) # <<>>
    /\ issue' = Head(issues)
    /\ snippet' = SearchKey(Head(issues))
    /\ usedFallback' = (find_paragraph_indices_containing(doc, snippet') = <<>>)
    /\ para_indices' = ResolveIndices(doc, snippet')
    /\ apc' = "annotate"
    /\ UNCHANGED <<stored, doc, issues, applied, call_sizes, orig>>
    /\ UNCHANGED <<chunkVars, ragVars, oraVars>>

\* Lines 180-187: the annotation run is added to every paragraph found.
AnnAnnotate ==
    /\ apc = "annotate"
    /\ doc' = AnnotateParas(doc, para_indices,
                            annotation_text(issue.severity, issue.suggestion))
    /\ issues' = Tail(issues)
    /\ applied' = Append(applied, issue)
    /\ apc' = "loop"
    /\ UNCHANGED <<stored, issue, snippet, para_indices, usedFallback, call_sizes, orig>>
    /\ UNCHANGED <<chunkVars, ragVars, oraVars>>

\* Lines 189-193: the Document is saved and its bytes returned.
AnnSave ==
    /\ apc = "loop"
    /\ issues = <<>>
    /\ stored' = doc
    /\ apc' = "idle"
    /\ UNCHANGED <<doc, issues, issue, snippet, para_indices, usedFallback, applied,
                   call_sizes, orig>>
    /\ UNCHANGED <<chunkVars, ragVars, oraVars>>


-----------------------------------------------------------------------------
(* The script body: extraction loop (229-240), oracle call and response    *)
(* parsing (288-314), report (317-327), grouping (331-334), annotation     *)
(* loop (336-344).                                                         *)
(*                                                                         *)
(* The oracle's response is a sequence of tokens:                          *)
(*   "{" "}"  braces                                                       *)
(*   "t"      free text that is no JSON and holds no brace                 *)
(*   "s"      a JSON string scalar                                         *)
(*   "a" "b"  the members of a well-formed issue record of document        *)
(*            A.docx, B.docx:  "document":"A.docx","issue":"x"             *)
(*   "n"      the members of a record of A.docx whose snippet is a number  *)
(* "{" m "}" with m a members token is a record; "{" e1 .. ek "}" with     *)
(* every e a record or "s" stands for {"issues":[e1,..,ek]}.               *)

MaxFiles == 2
FileNames == {"A.docx", "B.docx"}
Members == {"a", "b", "n"}

\* The elements of an issues list written as tokens; ok is FALSE when the
\* tokens are no list of elements.
RECURSIVE ParseElems(_)
ParseElems(toks) ==
    IF toks = <<>> THEN [ok |-> TRUE, elems |-> <<>>]
    ELSE IF Head(toks) = "s"
         THEN LET rest == ParseElems(Tail(toks))
              IN [ok |-> rest.ok, elems |-> <<"s">> \o rest.elems]
    ELSE IF Len(toks) >= 3 /\ toks[1] = "{" /\ toks[2] \in Members /\ toks[3] = "}"
         THEN LET rest == ParseElems(SubSeq(toks, 4, Len(toks)))
              IN [ok |-> rest.ok, elems |-> <<toks[2]>> \o rest.elems]
    ELSE [ok |-> FALSE, elems |-> <<>>]

\* json.loads(text): ok is FALSE when it raises; kind is the Python type of
\* the value; issues is value.get("issues", []) of a dict.
json_loads(toks) ==
    IF toks = <<"s">> THEN [ok |-> TRUE, kind |-> "str", issues |-> <<>>]
    ELSE IF Len(toks) = 3 /\ toks[1] = "{" /\ toks[2] \in Members /\ toks[3] = "}"
         THEN [ok |-> TRUE, kind |-> "dict", issues |-> <<>>]
    ELSE IF Len(toks) >= 2 /\ toks[1] = "{" /\ toks[Len(toks)] = "}"
            /\ ParseElems(SubSeq(toks, 2, Len(toks) - 1)).ok
         THEN [ok |-> TRUE, kind |-> "dict",
               issues |-> ParseElems(SubSeq(toks, 2, Len(toks) - 1)).elems]
    ELSE [ok |-> FALSE, kind |-> "none", issues |-> <<>>]

\* re.search(r"(\{[\s\S]*\})", text): from the first "{" to the last "}"
\* (the star is greedy); <<>> when there is no match.
re_search_braces(toks) ==
    LET opens == {k \in 1..Len(toks) : toks[k] = "{"}
        closes == {k \in 1..Len(toks) : toks[k] = "}"}
    IN IF opens = {} THEN <<>>
       ELSE LET f == CHOOSE k \in opens : \A m \in opens : k <= m
            IN IF \E k \in closes : k > f
               THEN SubSeq(toks, f, CHOOSE k \in closes : \A m \in closes : m <= k)
               ELSE <<>>

\* Lines 291-306: the path the parsing takes and the issues it yields.
\*   "json"       the whole response is JSON
\*   "extracted"  the brace block found by the regex is JSON
\*   "raw"        no brace block: {"issues": [], "raw": raw_text}
\*   "error"      an exception reached line 312: issues = []
ParseResponse(toks) ==
    LET whole == json_loads(toks)
        block == re_search_braces(toks)
        parsed == IF whole.ok THEN whole
                  ELSE IF block # <<>> THEN json_loads(block)
                  ELSE [ok |-> TRUE, kind |-> "dict", issues |-> <<>>]
        path == IF whole.ok THEN "json"
                ELSE IF block # <<>> THEN "extracted" ELSE "raw"
    IN IF parsed.ok /\ parsed.kind = "dict"
       THEN [path |-> path, issues |-> parsed.issues]
       ELSE [path |-> "error", issues |-> <<>>]

RawPool ==
    { <<"{", "{", "a", "}", "}">>,
      <<"t", "{", "{", "a", "}", "}", "t">>,
      <<"t", "{", "{", "a", "}", "}", "t", "{", "}">>,
      <<"t">>,
      <<"{", "s", "}">>,
      <<"{", "{", "n", "}", "{", "b", "}", "}">>,
      <<"s">>,
      <<"{", "{", "a", "}", "{", "b", "}", "}">>,
      <<"t", "}", "{">>,
      <<"t", "{", "t", "}">>,
      <<"{", "a", "}">>,
      <<"{", "}">> }

\* it.get("document", "") of a record.
DocumentOf(m) == IF m = "b" THEN "B.docx" ELSE "A.docx"

OraRest ==
    /\ uploaded_files = <<>> /\ combined_texts = <<>> /\ raw_text = <<>>
    /\ parse_path = "none" /\ found_issues = <<>> /\ report_done = FALSE
    /\ issues_by_doc = [f \in FileNames |-> <<>>] /\ annotated = {}
    /\ errors = <<>> /\ opc = "rest"

\* Line 199: the uploaded batch, files of distinct names, each a readable
\* .docx or not.
OraInit ==
    /\ \E n \in 1..MaxFiles :
         uploaded_files \in
           {b \in [1..n -> [name : FileNames, readable : BOOLEAN]] :
              \A x, y \in 1..n : x # y => b[x].name # b[y].name}
    /\ combined_texts = <<>> /\ raw_text = <<>>
    /\ parse_path = "none" /\ found_issues = <<>> /\ report_done = FALSE
    /\ issues_by_doc = [f \in FileNames |-> <<>>] /\ annotated = {}
    /\ errors = <<>> /\ opc = "extract"

\* Lines 229-240: the next uploaded file is read, or reported unreadable.
ExtractFile ==
    /\ opc = "extract"
    /\ Len(combined_texts) + Len(errors) < Len(uploaded_files)
    /\ LET f == uploaded_files[Len(combined_texts) + Len(errors) + 1]
       IN IF f.readable
          THEN /\ combined_texts' = Append(combined_texts, f.name)
               /\ UNCHANGED errors
          ELSE /\ errors' = Append(errors, f.name)
               /\ UNCHANGED combined_texts
    /\ UNCHANGED <<uploaded_files, raw_text, parse_path, found_issues,
                   report_done, issues_by_doc, annotated, opc>>
    /\ UNCHANGED <<chunkVars, ragVars, annVars>>

\* Lines 257-314: the oracle answers and the answer is parsed.
OracleRespond ==
    /\ opc = "extract"
    /\ Len(combined_texts) + Len(errors) = Len(uploaded_files)
    /\ raw_text' \in RawPool
    /\ parse_path' = ParseResponse(raw_text').path
    /\ found_issues' = ParseResponse(raw_text').issues
    /\ opc' = "parsed"
    /\ UNCHANGED <<uploaded_files, combined_texts, report_done, issues_by_doc,
                   annotated, errors>>
    /\ UNCHANGED <<chunkVars, ragVars, annVars>>

\* Lines 288-290, 312-314: the call to the oracle raises.
OracleFails ==
    /\ opc = "extract"
    /\ Len(combined_texts) + Len(errors) = Len(uploaded_files)
    /\ parse_path' = "error"
    /\ found_issues' = <<>>
    /\ opc' = "parsed"
    /\ UNCHANGED <<uploaded_files, combined_texts, raw_text, report_done,
                   issues_by_doc, annotated, errors>>
    /\ UNCHANGED <<chunkVars, ragVars, annVars>>

\* Lines 317-327: the report is built and offered for download.
BuildReport ==
    /\ opc = "parsed"
    /\ report_done' = TRUE
    /\ opc' = "group"
    /\ UNCHANGED <<uploaded_files, combined_texts, raw_text, parse_path,
                   found_issues, issues_by_doc, annotated, errors>>
    /\ UNCHANGED <<chunkVars, ragVars, annVars>>

\* The issues of found_issues that belong to document f, in order.
RECURSIVE GroupFor(_, _)
GroupFor(f, its) ==
    IF its = <<>> THEN <<>>
    ELSE IF DocumentOf(Head(its)) = f
         THEN <<Head(its)>> \o GroupFor(f, Tail(its))
         ELSE GroupFor(f, Tail(its))

\* Lines 331-334: it.get("document", "") of every issue; an element that
\* is no dict has no get: AttributeError, which nothing catches.
GroupIssues ==
    /\ opc = "group"
    /\ IF \E k \in 1..Len(found_issues) : found_issues[k] = "s"
       THEN /\ opc' = "aborted"
            /\ UNCHANGED issues_by_doc
       ELSE /\ issues_by_doc' = [f \in FileNames |-> GroupFor(f, found_issues)]
            /\ opc' = "annotate"
    /\ UNCHANGED <<uploaded_files, combined_texts, raw_text, parse_path,
                   found_issues, report_done, annotated, errors>>
    /\ UNCHANGED <<chunkVars, ragVars, annVars>>

\* Lines 336-344: the next extracted file is annotated with its issues.  A
\* snippet that is no str has no strip (line 129): AttributeError, which
\* nothing catches.
AnnotateFile ==
    /\ opc = "annotate"
    /\ Cardinality(annotated) < Len(combined_texts)
    /\ LET name == combined_texts[Cardinality(annotated) + 1]
       IN IF \E k \in 1..Len(issues_by_doc[name]) : issues_by_doc[name][k] = "n"
          THEN /\ opc' = "aborted"
               /\ UNCHANGED annotated
          ELSE /\ annotated' = annotated \cup {name}
               /\ UNCHANGED opc
    /\ UNCHANGED <<uploaded_files, combined_texts, raw_text, parse_path,
                   found_issues, report_done, issues_by_doc, errors>>
    /\ UNCHANGED <<chunkVars, ragVars, annVars>>

\* Line 346: every extracted file has its annotated copy.
Complete ==
    /\ opc = "annotate"
    /\ Cardinality(annotated) = Len(combined_texts)
    /\ opc' = "done"
    /\ UNCHANGED <<uploaded_files, combined_texts, raw_text, parse_path,
                   found_issues, report_done, issues_by_doc, annotated, errors>>
    /\ UNCHANGED <<chunkVars, ragVars, annVars>>

-----------------------------------------------------------------------------
(* The specifications.                                                     *)

InitChunk == ChunkInit /\ RagRest /\ AnnRest /\ OraRest
NextChunk == ChunkStep \/ ChunkReturn
SpecChunk == InitChunk /\ [][NextChunk]_vars

InitRag == ChunkRest /\ RagInit /\ AnnRest /\ OraRest
NextRag == RagCollect \/ RagVectorize \/ RagVectorizeFails \/ RagRank
SpecRag == InitRag /\ [][NextRag]_vars

InitAnnot == ChunkRest /\ RagRest /\ AnnInit /\ OraRest
NextAnnot == AnnLoad \/ AnnSkip \/ AnnResolve \/ AnnAnnotate \/ AnnSave
SpecAnnot == InitAnnot /\ [][NextAnnot]_vars

InitOracle == ChunkRest /\ RagRest /\ AnnRest /\ OraInit
NextOracle ==
    \/ ExtractFile \/ OracleRespond \/ OracleFails \/ BuildReport
    \/ GroupIssues \/ AnnotateFile \/ Complete
SpecOracle == InitOracle /\ [][NextOracle]_vars

-----------------------------------------------------------------------------
(* Claims about chunk_text, build_rag_context and the script body.         *)

\* C8: when chunk_text has returned, every chunk except the last one holds
\* exactly chunk_size words; only the last chunk may be shorter.
C8_OnlyLastChunkShorter ==
    cpc = "done" =>
        \A k \in 1..(Len(chunks) - 1) : Len(chunks[k]) = chunk_size

\* C1: the retriever returns at most top_k results, every score is
\* strictly positive and at most 1.0 (ScoreMax), and the results are in
\* descending order of score, equal scores in original chunk order.
C1_TopKRankedStable ==
    rpc = "done" =>
        /\ Len(top_chunks) <= top_k
        /\ \A k \in 1..Len(top_chunks) : top_chunks[k].score \in 1..ScoreMax
        /\ \A a, b \in 1..Len(top_chunks) :
             a < b =>
               \/ top_chunks[a].score > top_chunks[b].score
               \/ /\ top_chunks[a].score = top_chunks[b].score
                  /\ top_chunks[a].chunk < top_chunks[b].chunk

\* The names of the uploaded files that are readable documents.
ReadableNames ==
    {uploaded_files[k].name : k \in {m \in 1..Len(uploaded_files) :
                                       uploaded_files[m].readable}}

\* C6: no malformed issue record aborts the run; at the end the report and
\* the annotated copy of every readable document are produced, and an
\* unreadable document removes only itself from the batch.
C6_FailuresContained ==
    /\ opc # "aborted"
    /\ opc = "done" => /\ report_done
                       /\ annotated = ReadableNames

\* The brace depth of toks[a..b]: opening minus closing braces.
BraceDepth(toks, a, b) ==
    Cardinality({k \in a..b : toks[k] = "{"})
    - Cardinality({k \in a..b : toks[k] = "}"})

\* The first balanced brace block of toks: from the first "{" to the first
\* position where the depth is back to 0; <<>> when there is none.
FirstBalancedObject(toks) ==
    LET opens == {k \in 1..Len(toks) : toks[k] = "{"}
    IN IF opens = {} THEN <<>>
       ELSE LET f == CHOOSE k \in opens : \A m \in opens : k <= m
                ends == {k \in f..Len(toks) : BraceDepth(toks, f, k) = 0}
            IN IF ends = {} THEN <<>>
               ELSE SubSeq(toks, f, CHOOSE k \in ends : \A m \in ends : k <= m)

\* C7: when the whole response is no JSON, the issues are those of the
\* first balanced JSON object of the text, also when more braces or a
\* second object follow it; when no object can be extracted there are no
\* issues; parsing never aborts the run.
C7_FirstBalancedObjectParsed ==
    (opc = "parsed" /\ raw_text # <<>> /\ ~json_loads(raw_text).ok) =>
        LET first == FirstBalancedObject(raw_text)
        IN IF first # <<>> /\ json_loads(first).ok /\ json_loads(first).kind = "dict"
           THEN found_issues = json_loads(first).issues
           ELSE found_issues = <<>>

-----------------------------------------------------------------------------
(* Claims about the resolver and the annotator, under SpecAnnot.           *)

IsPrefix(a, b) == Len(a) <= Len(b) /\ SubSeq(b, 1, Len(a)) = a

\* The normalized text of paragraph p (from 0) of d.
ParaNorm(d, p) == normalize_snippet(ParaText(d[p + 1]))

\* seq lists the members of S in ascending order, each once.
IsAscendingListOf(seq, S) ==
    /\ \A k \in 1..(Len(seq) - 1) : seq[k] < seq[k + 1]
    /\ {seq[k] : k \in 1..Len(seq)} = S

\* d1 has the paragraphs of d0, in the same order, each text only extended.
AppendOnly(d0, d1) ==
    /\ Len(d1) = Len(d0)
    /\ \A k \in 1..Len(d0) : IsPrefix(ParaText(d0[k]), ParaText(d1[k]))

\* C2: the annotated document has the paragraphs of the original, in the
\* same order, and the text of every original paragraph is a prefix of the
\* text of the paragraph at the same index; after every processed issue.
C2_AppendOnly ==
    /\ AppendOnly(orig, stored)
    /\ apc \in {"loop", "annotate"} => AppendOnly(orig, doc)

C2_Witness ==
    /\ apc = "idle"
    /\ \E k \in 1..Len(orig) :
         /\ ParaText(orig[k]) # <<>>
         /\ ParaText(stored[k]) # ParaText(orig[k])

\* The paragraphs the issues of its resolve to in document d.
Locations(d, its) ==
    UNION {{ResolveIndices(d, SearchKey(its[k]))[m] :
              m \in 1..Len(ResolveIndices(d, SearchKey(its[k])))} :
           k \in {j \in 1..Len(its) : SearchKey(its[j]) # <<>>}}

\* C3: annotating in several calls, each fed the result of the one before,
\* yields the document that one call with the concatenated issue lists
\* yields; and every issue appends one run of its own to each paragraph it
\* resolves to, every earlier run kept as it was.
C3_Accumulates ==
    /\ [](apc = "idle" => stored = annotate_docx_bytes(orig, applied))
    /\ [][apc = "annotate" =>
            /\ Len(doc') = Len(doc)
            /\ \A k \in 1..Len(doc) :
                 IF \E m \in 1..Len(para_indices) : para_indices[m] = k - 1
                 THEN doc'[k] = Append(doc[k],
                        [text |-> annotation_text(issue.severity, issue.suggestion),
                         italic |-> TRUE, bold |-> FALSE])
                 ELSE doc'[k] = doc[k]]_vars

\* Two calls of one issue each, resolving in the original to disjoint,
\* non-empty sets of paragraphs, have both returned.
C3_Witness ==
    /\ apc = "idle"
    /\ call_sizes = <<1, 1>>
    /\ Len(applied) = 2
    /\ Locations(orig, <<applied[1]>>) # {}
    /\ Locations(orig, <<applied[2]>>) # {}
    /\ Locations(orig, <<applied[1]>>) \cap Locations(orig, <<applied[2]>>) = {}

\* What find_paragraph_indices_containing returned in the last resolution.
ExactResult == IF usedFallback THEN <<>> ELSE para_indices

\* The paragraphs whose normalized text contains the normalized snippet.
ContainingParas(d, sn) ==
    {p \in 0..(Len(d) - 1) : Contains(ParaNorm(d, p), normalize_snippet(sn))}

\* Those among them whose normalized text is not empty.
NonEmptyContainingParas(d, sn) ==
    {p \in ContainingParas(d, sn) : ParaNorm(d, p) # <<>>}

\* C4 as stated: the containment phase returns, in ascending order, exactly
\* the paragraphs whose normalized text contains the normalized snippet.
C4_AllContainingParas ==
    apc = "annotate" => IsAscendingListOf(ExactResult, ContainingParas(doc, snippet))

\* C4 amended: the containment phase returns, in ascending order, exactly
\* the paragraphs whose normalized text is not empty and contains the
\* normalized snippet.
C4_AllNonEmptyContainingParas ==
    apc = "annotate" =>
        IsAscendingListOf(ExactResult, NonEmptyContainingParas(doc, snippet))

C4_Witness ==
    /\ apc = "annotate"
    /\ ~usedFallback
    /\ Len(para_indices) >= 2
    /\ normalize_snippet(snippet) # snippet

\* The maximal runs of word characters of s that have 4 characters or more.
\* as <<first, last>> positions.
WordSpans(s) ==
    LET starts == {a \in 1..Len(s) :
                     IsWordChar(s[a]) /\ (a = 1 \/ ~IsWordChar(s[a - 1]))}
        EndOf(a) == CHOOSE b \in a..Len(s) :
                      /\ \A k \in a..b : IsWordChar(s[k])
                      /\ b = Len(s) \/ ~IsWordChar(s[b + 1])
    IN {sp \in {<<a, EndOf(a)>> : a \in starts} : sp[2] - sp[1] + 1 >= 4}

\* The words of 4 characters or more of s, lower-cased.
LongWords(s) == {Lower(SubSeq(s, sp[1], sp[2])) : sp \in WordSpans(s)}

\* The snippet and some paragraph of d have a word of length >= 4 in common.
SharesLongWord(sn, d) ==
    \E k \in 1..Len(d) : LongWords(sn) \cap LongWords(ParaText(d[k])) # {}

\* C5 as stated: a snippet that shares no word of length >= 4 with any
\* paragraph resolves to no paragraph, and no run is appended for it.
C5_NoSharedWordNoLocation ==
    [][(apc = "annotate" /\ ~SharesLongWord(snippet, doc)) =>
          (para_indices = <<>> /\ doc' = doc)]_vars

\* No non-empty paragraph contains the normalized snippet, and no paragraph
\* contains a word of length >= 4 of the snippet as a substring.
NothingToFind(sn, d) ==
    /\ NonEmptyContainingParas(d, sn) = {}
    /\ \A p \in 0..(Len(d) - 1) : \A w \in LongWords(sn) : ~Contains(ParaNorm(d, p), w)

\* C5 amended: when the normalized snippet is contained in no non-empty
\* paragraph and no word of length >= 4 of the snippet occurs, lower-cased,
\* as a substring of a paragraph's normalized text, the resolution yields
\* no paragraph and no run is appended for the issue.
C5_NothingToFindNoLocation ==
    [][(apc = "annotate" /\ NothingToFind(snippet, doc)) =>
          (para_indices = <<>> /\ doc' = doc)]_vars

\* An issue whose snippet has a long word found nowhere has been processed.
C5_Witness ==
    /\ apc = "loop"
    /\ applied # <<>>
    /\ snippet # <<>>
    /\ LongWords(snippet) # {}
    /\ NothingToFind(snippet, doc)
    /\ para_indices = <<>>
    /\ doc = stored

\* The first 6 words of 4 characters or more of s, lower-cased.
FirstSixLongWords(s) ==
    LET spans == WordSpans(s)
    IN {Lower(SubSeq(s, sp[1], sp[2])) :
          sp \in {q \in spans : Cardinality({r \in spans : r[1] < q[1]}) < 6}}

\* The paragraphs whose normalized text contains one of those words.
KeywordParas(d, sn) ==
    LET keywords == FirstSixLongWords(sn)
    IN {p \in 0..(Len(d) - 1) : \E w \in keywords : Contains(ParaNorm(d, p), w)}

\* C9: the fallback is entered only when the containment phase found no
\* paragraph; it yields exactly the first paragraph, in ascending order,
\* whose normalized text contains one of the first 6 words of length >= 4
\* of the snippet, or none; and the issue gets a run on at most one
\* paragraph.
C9_FallbackFirstParagraphOnly ==
    /\ []((apc = "annotate" /\ usedFallback) =>
            /\ NonEmptyContainingParas(doc, snippet) = {}
            /\ LET found == KeywordParas(doc, snippet)
               IN IF found = {}
                  THEN para_indices = <<>>
                  ELSE para_indices = <<CHOOSE p \in found : \A q \in found : p <= q>>)
    /\ []((apc = "annotate" /\ ~usedFallback) =>
            NonEmptyContainingParas(doc, snippet) # {})
    /\ [][(apc = "annotate" /\ usedFallback) =>
            Cardinality({k \in 1..Len(doc) : doc'[k] # doc[k]}) <= 1]_vars

\* The fallback resolved to the first of several paragraphs with a keyword.
C9_Witness ==
    /\ apc = "annotate"
    /\ usedFallback
    /\ Len(para_indices) = 1
    /\ Cardinality(KeywordParas(doc, snippet)) >= 2

\* The first non-empty field among snippet, section, text; the issue
\* description when all three are empty.
ExpectedKey(it) ==
    LET fields == <<it.snippet, it.section, it.text>>
        filled == {k \in 1..3 : fields[k] # <<>>}
    IN IF filled # {}
       THEN fields[CHOOSE k \in filled : \A m \in filled : k <= m]
       ELSE it.issue

\* C10: the search key of an issue is the first non-empty field among
\* snippet, section, text, and the description when all three are empty;
\* an issue with no non-empty candidate is skipped and leaves every
\* paragraph as it was.
C10_SearchKeySelection ==
    [][(apc = "loop" /\ issues # <<>>) =>
          IF ExpectedKey(Head(issues)) = <<>>
          THEN doc' = doc /\ apc' = "loop" /\ issues' = Tail(issues)
          ELSE apc' = "annotate" /\ snippet' = ExpectedKey(Head(issues))]_vars

\* An issue located by its description, then an issue with no candidate.
C10_Witness ==
    /\ apc = "loop"
    /\ Len(applied) = 2
    /\ applied[1].snippet = <<>> /\ applied[1].section = <<>>
    /\ applied[1].text = <<>> /\ applied[1].issue # <<>>
    /\ applied[2].snippet = <<>> /\ applied[2].section = <<>>
    /\ applied[2].text = <<>> /\ applied[2].issue = <<>>
    /\ issue = applied[2]
    /\ doc # orig

=============================================================================
